---- MODULE Spec2Model ----
(***************************************************************************)
(* The food-ordering HTTP backend (src/index.js and its near-duplicate     *)
(* src/unnamed/part_000) as a state machine.                               *)
(*                                                                         *)
(* State: the three document collections, the ObjectId generator, the      *)
(* wall clock (hours) and the requests being handled.  A request advances  *)
(* one store call at a time: an action is the resolution of the awaited    *)
(* store call together with the synchronous code that follows it, up to    *)
(* the next await or the response.  Every store call may also fail (the    *)
(* driver rejects the promise).                                            *)
(***************************************************************************)
EXTENDS Integers, Sequences, FiniteSets, TLC

\* Number of requests handled in one behaviour of the collection scenarios.
MaxReqs == 2
\* Number of requests handled in one behaviour of the authentication scenario.
MaxAuthReqs == 1
\* Hours the wall clock may advance.
MaxTime == 1

\* jwt.sign(..., { expiresIn: "1h" }), in hours.
ExpiresIn == 1
\* An id string that "new ObjectId(id)" rejects (not 24 hex digits).
InvalidId == 0

VARIABLES variant, now, users, foods, orders, nextId, reqs

vars == <<variant, now, users, foods, orders, nextId, reqs>>

Variants == {"index.js", "part_000"}
Emails == {"a@x", "b@x"}

\* JavaScript null/undefined for a document, and undefined for a string.
Null == [null |-> TRUE]
Undefined == "undefined"

\* doc.field, undefined when the document has no such field (also doc?.field).
Field(doc, f) == IF f \in DOMAIN doc THEN doc[f] ELSE Undefined

\* The stored document: the submitted body plus the generated _id.
Doc(body, id) ==
  [f \in DOMAIN body \cup {"_id"} |-> IF f = "_id" THEN id ELSE body[f]]

\* A filter {field: v}: an undefined value matches documents lacking the field.
Matches(doc, f, v) == Field(doc, f) = v

\* collection.findOne({field: v}): any matching document, null when none.
FindOne(coll, f, v) ==
  LET m == {d \in coll : Matches(d, f, v)}
  IN IF m = {} THEN {Null} ELSE m

\* new ObjectId(id) throws on a malformed id string.
ValidObjectId(id) == id # InvalidId

(***************************************************************************)
(* Token service                                                           *)
(***************************************************************************)
\* jwt.sign(body, secret, {expiresIn: "1h"}) at time t.
JwtSign(body, t) ==
  [payload |-> [f \in DOMAIN body \cup {"iat", "exp"} |->
                  IF f = "iat" THEN t
                  ELSE IF f = "exp" THEN t + ExpiresIn
                  ELSE body[f]],
   sig |-> "valid"]

\* A token signed with another secret.
Forge(token) == [token EXCEPT !.sig = "invalid"]

\* jwt.verify(token, secret, cb): cb gets an error for a missing token, a bad
\* signature or an expired token.
JwtVerifyErr(token, t) ==
  \/ token = Null
  \/ token.sig # "valid"
  \/ t >= token.payload.exp

\* The Authorization header: absent, or its text as the words between spaces.
NoHeader == [present |-> FALSE]
Header(words) == [present |-> TRUE, words |-> words]

\* (As if the test were authHeader === undefined.)
HeaderFalsyOnlyAbsent(h) == ~h.present

\* !authHeader: undefined or the empty string.
HeaderFalsy(h) == ~h.present \/ h.words = <<"">>

\* authHeader.split(" ")[1]
SplitToken(h) == IF Len(h.words) >= 2 THEN h.words[2] ELSE Null

(***************************************************************************)
(* Requests                                                                *)
(***************************************************************************)
Idle == [pc |-> "idle"]

\* query is req.query.email, req.params.email or req.query.category, by route.
NewReq(route, header, id, query, body) ==
  [route |-> route, header |-> header, id |-> id, query |-> query,
   body |-> body, pc |-> "next", decoded |-> Null, user |-> Null,
   order |-> Null, res |-> Null, err |-> "none"]

\* res.status(status).send(...)
Send(q, status, kind, data) ==
  [q EXCEPT !.pc = "done",
            !.res = [status |-> status, kind |-> kind, data |-> data]]

\* An error thrown (or a promise rejected) in an async handler or guard that
\* has no try/catch: the handler's promise rejects and it sends nothing.
Escape(q, err) == [q EXCEPT !.pc = "escaped", !.err = err]

\* catch (err) { res.status(500).send({ message }) }
Caught(q, err, msg) == [Send(q, 500, "message", msg) EXCEPT !.err = err]

At(q, pc) == [q EXCEPT !.pc = pc]

\* Requests take the slots in order.
IsNext(r) ==
  /\ reqs[r].pc = "idle"
  /\ \A s \in DOMAIN reqs : s < r => reqs[s].pc # "idle"

\* verifyJWT
VerifyJWT(q, t) ==
  IF HeaderFalsy(q.header)
  THEN Send(q, 401, "message", "Unauthorized")
  ELSE LET token == SplitToken(q.header)
       IN IF JwtVerifyErr(token, t)
          THEN Send(q, 403, "message", "Forbidden access")
          ELSE [q EXCEPT !.decoded = token.payload]

\* user?.role
RoleOf(user) == Field(user, "role")

\* (As if the test were !user.)
NotAdminOnlyNull(user) == user = Null

\* verifyAdmin's test
NotAdmin(user) == RoleOf(user) # "admin" /\ RoleOf(user) # "super admin"

\* The owner-or-admin tests of the orders handlers.
NotOwner(order, email) == Field(order, "buyerEmail") # email

\* (As if the test were !user.)
NotOrderAdminOnlyNull(user) == user = Null

NotOrderAdmin(user) == RoleOf(user) # "admin"

\* (As if the test were if (!existing).)
AlreadyExistsInverted(existing) == existing = Null

\* if (existing)
AlreadyExists(existing) == existing # Null

\* if (!user) / if (!order) / if (!food), negated
Found(doc) == doc # Null

Step(r, q) == reqs' = [reqs EXCEPT ![r] = q]

(***************************************************************************)
(* POST /jwt, GET /                                                        *)
(***************************************************************************)
PostJwt(r, body) ==
  /\ IsNext(r)
  /\ Step(r, Send(NewReq("POST /jwt", NoHeader, InvalidId, Undefined, body),
                  200, "token", JwtSign(body, now)))
  /\ UNCHANGED <<variant, now, users, foods, orders, nextId>>

GetRoot(r) ==
  /\ IsNext(r)
  /\ Step(r, Send(NewReq("GET /", NoHeader, InvalidId, Undefined, Null),
                  200, "text", "FlavorNest Server is Running!"))
  /\ UNCHANGED <<variant, now, users, foods, orders, nextId>>

\* The wall clock advances by an hour.
Tick ==
  /\ now < MaxTime
  /\ now' = now + 1
  /\ UNCHANGED <<variant, users, foods, orders, nextId, reqs>>

(***************************************************************************)
(* Users                                                                   *)
(***************************************************************************)
PostUsers(r, body) ==
  /\ IsNext(r)
  /\ Step(r, At(NewReq("POST /users", NoHeader, InvalidId, Undefined, body),
                "postUsers.findOne"))
  /\ UNCHANGED <<variant, now, users, foods, orders, nextId>>

PostUsersFindOne(r) ==
  /\ reqs[r].pc = "postUsers.findOne"
  /\ \/ Step(r, Escape(reqs[r], "MongoError"))
     \/ \E existing \in FindOne(users, "email", Field(reqs[r].body, "email")) :
          Step(r, IF AlreadyExists(existing)
                  THEN Send([reqs[r] EXCEPT !.user = existing],
                            200, "message", "User already exists")
                  ELSE At(reqs[r], "postUsers.insertOne"))
  /\ UNCHANGED <<variant, now, users, foods, orders, nextId>>

PostUsersInsertOne(r) ==
  /\ reqs[r].pc = "postUsers.insertOne"
  /\ \/ /\ Step(r, Escape(reqs[r], "MongoError"))
        /\ UNCHANGED <<users, nextId>>
     \/ /\ users' = users \cup {Doc(reqs[r].body, nextId)}
        /\ nextId' = nextId + 1
        /\ Step(r, Send(reqs[r], 200, "insert", nextId))
  /\ UNCHANGED <<variant, now, foods, orders>>

GetUser(r, email) ==
  /\ IsNext(r)
  /\ Step(r, At(NewReq("GET /users/:email", NoHeader, InvalidId, email, Null),
                "getUser.findOne"))
  /\ UNCHANGED <<variant, now, users, foods, orders, nextId>>

GetUserFindOne(r) ==
  /\ reqs[r].pc = "getUser.findOne"
  /\ \/ Step(r, Escape(reqs[r], "MongoError"))
     \/ \E user \in FindOne(users, "email", reqs[r].query) :
          Step(r, IF ~Found(user)
                  THEN Send(reqs[r], 404, "message", "User not found")
                  ELSE Send(reqs[r], 200, "doc", user))
  /\ UNCHANGED <<variant, now, users, foods, orders, nextId>>

(***************************************************************************)
(* Orders                                                                  *)
(***************************************************************************)
\* The synchronous start of the DELETE /orders/:id handler.
DeleteOrderEntry(q) ==
  IF ~ValidObjectId(q.id) THEN Escape(q, "BSONError") ELSE At(q, "deleteOrder.findOne")

\* The synchronous start of the GET /orders handler.
GetOrdersEntry(q, v) ==
  IF v = "index.js"
  THEN IF q.query = Undefined \/ q.query = ""
       THEN Send(q, 400, "message", "Email query is required")
       ELSE IF Field(q.decoded, "email") # q.query
            THEN Send(q, 403, "message", "Forbidden")
            ELSE At(q, "getOrders.find")
  ELSE IF q.query # Field(q.decoded, "email")
       THEN At(q, "getOrders.findOne")
       ELSE At(q, "getOrders.find")

\* The synchronous start of the POST /orders handler.
PostOrdersEntry(q, v, t) ==
  IF v = "index.js"
  THEN At(q, "postOrders.insertOne")
  ELSE At([q EXCEPT !.body = [f \in DOMAIN q.body \cup {"createdAt"} |->
                                IF f = "createdAt" THEN t ELSE q.body[f]]],
          "postOrders.insertOne")

PostOrders(r, header, body) ==
  /\ IsNext(r)
  /\ LET q == VerifyJWT(NewReq("POST /orders", header, InvalidId, Undefined, body), now)
     IN Step(r, IF q.pc = "next" THEN PostOrdersEntry(q, variant, now) ELSE q)
  /\ UNCHANGED <<variant, now, users, foods, orders, nextId>>

PostOrdersInsertOne(r) ==
  /\ reqs[r].pc = "postOrders.insertOne"
  /\ \/ /\ Step(r, Escape(reqs[r], "MongoError"))
        /\ UNCHANGED <<orders, nextId>>
     \/ /\ orders' = orders \cup {Doc(reqs[r].body, nextId)}
        /\ nextId' = nextId + 1
        /\ Step(r, Send(reqs[r], 200, "insert", nextId))
  /\ UNCHANGED <<variant, now, users, foods>>

GetOrders(r, header, query) ==
  /\ IsNext(r)
  /\ LET q == VerifyJWT(NewReq("GET /orders", header, InvalidId, query, Null), now)
     IN Step(r, IF q.pc = "next" THEN GetOrdersEntry(q, variant) ELSE q)
  /\ UNCHANGED <<variant, now, users, foods, orders, nextId>>

GetOrdersFindOne(r) ==
  /\ reqs[r].pc = "getOrders.findOne"
  /\ \/ Step(r, Escape(reqs[r], "MongoError"))
     \/ \E user \in FindOne(users, "email", Field(reqs[r].decoded, "email")) :
          LET q == [reqs[r] EXCEPT !.user = user]
          IN Step(r, IF NotOrderAdmin(user)
                     THEN Send(q, 403, "message", "Forbidden")
                     ELSE At(q, "getOrders.find"))
  /\ UNCHANGED <<variant, now, users, foods, orders, nextId>>

GetOrdersFind(r) ==
  /\ reqs[r].pc = "getOrders.find"
  /\ \/ Step(r, Escape(reqs[r], "MongoError"))
     \/ Step(r, Send(reqs[r], 200, "docs",
                     {d \in orders : Matches(d, "buyerEmail", reqs[r].query)}))
  /\ UNCHANGED <<variant, now, users, foods, orders, nextId>>

DeleteOrder(r, header, id, query) ==
  /\ IsNext(r)
  /\ LET q == VerifyJWT(NewReq("DELETE /orders/:id", header, id, query, Null), now)
     IN Step(r, IF q.pc = "next" THEN DeleteOrderEntry(q) ELSE q)
  /\ UNCHANGED <<variant, now, users, foods, orders, nextId>>

DeleteOrderFindOne(r) ==
  /\ reqs[r].pc = "deleteOrder.findOne"
  /\ \/ Step(r, Escape(reqs[r], "MongoError"))
     \/ \E order \in FindOne(orders, "_id", reqs[r].id) :
          LET q == [reqs[r] EXCEPT !.order = order]
          IN Step(r, IF ~Found(order)
                     THEN Send(q, 404, "message", "Order not found")
                     ELSE IF NotOwner(order, Field(q.decoded, "email"))
                          THEN At(q, "deleteOrder.findUser")
                          ELSE At(q, "deleteOrder.deleteOne"))
  /\ UNCHANGED <<variant, now, users, foods, orders, nextId>>

DeleteOrderFindUser(r) ==
  /\ reqs[r].pc = "deleteOrder.findUser"
  /\ \/ Step(r, Escape(reqs[r], "MongoError"))
     \/ \E user \in FindOne(users, "email", Field(reqs[r].decoded, "email")) :
          LET q == [reqs[r] EXCEPT !.user = user]
          IN Step(r, IF NotOrderAdmin(user)
                     THEN Send(q, 403, "message", "Forbidden")
                     ELSE At(q, "deleteOrder.deleteOne"))
  /\ UNCHANGED <<variant, now, users, foods, orders, nextId>>

DeleteOrderDeleteOne(r) ==
  /\ reqs[r].pc = "deleteOrder.deleteOne"
  /\ \/ /\ Step(r, Escape(reqs[r], "MongoError"))
        /\ UNCHANGED orders
     \/ LET m == {d \in orders : Matches(d, "_id", reqs[r].id)}
        IN /\ orders' = orders \ m
           /\ Step(r, Send(reqs[r], 200, "delete", Cardinality(m)))
  /\ UNCHANGED <<variant, now, users, foods, nextId>>

(***************************************************************************)
(* Admin gate, GET /users                                                  *)
(***************************************************************************)
\* String.prototype.toLowerCase on the strings requests carry here.
ToLowerCase(s) ==
  CASE s = "Pizza" -> "pizza"
    [] s = "PIZZA" -> "pizza"
    [] s = "ALL" -> "all"
    [] s = "All" -> "all"
    [] OTHER -> s

\* !doc.field for a field whose falsy value is zero ("" or 0).
Falsy(doc, f, zero) == f \notin DOMAIN doc \/ doc[f] = zero

\* (As if only the name were tested.)
MissingFieldsOnlyName(food) == Falsy(food, "name", "")

\* !food.name || !food.price || !food.image
MissingFields(food) ==
  Falsy(food, "name", "") \/ Falsy(food, "price", 0) \/ Falsy(food, "image", "")

\* The synchronous start of the POST /foods handler.
PostFoodsEntry(q, v) ==
  IF MissingFields(q.body)
  THEN Send(q, 400, "message", "Name, Price, Image required")
  ELSE IF v = "index.js"
       THEN At(q, "postFoods.insertOne")
       ELSE IF "category" \notin DOMAIN q.body
            THEN Caught(q, "TypeError", "Failed to add food")
            ELSE At([q EXCEPT !.body.category = ToLowerCase(q.body.category)],
                    "postFoods.insertOne")

\* The synchronous start of the DELETE /foods/:id handler.
DeleteFoodEntry(q, v) ==
  IF ~ValidObjectId(q.id)
  THEN IF v = "index.js"
       THEN Caught(q, "BSONError", "Failed to delete food")
       ELSE Escape(q, "BSONError")
  ELSE At(q, "deleteFood.deleteOne")

\* next() after verifyAdmin: the route's handler.
AdminEntry(q, v) ==
  CASE q.route = "GET /users" -> At(q, "getUsers.find")
    [] q.route = "POST /foods" -> PostFoodsEntry(q, v)
    [] q.route = "DELETE /foods/:id" -> DeleteFoodEntry(q, v)

GetUsers(r, header) ==
  /\ IsNext(r)
  /\ LET q == VerifyJWT(NewReq("GET /users", header, InvalidId, Undefined, Null), now)
     IN Step(r, IF q.pc = "next" THEN At(q, "verifyAdmin.findOne") ELSE q)
  /\ UNCHANGED <<variant, now, users, foods, orders, nextId>>

VerifyAdmin(r) ==
  /\ reqs[r].pc = "verifyAdmin.findOne"
  /\ \/ Step(r, Escape(reqs[r], "MongoError"))
     \/ \E user \in FindOne(users, "email", Field(reqs[r].decoded, "email")) :
          LET q == [reqs[r] EXCEPT !.user = user]
          IN Step(r, IF NotAdmin(user)
                     THEN Send(q, 403, "message", "Admin access only")
                     ELSE AdminEntry(q, variant))
  /\ UNCHANGED <<variant, now, users, foods, orders, nextId>>

GetUsersFind(r) ==
  /\ reqs[r].pc = "getUsers.find"
  /\ \/ Step(r, Escape(reqs[r], "MongoError"))
     \/ Step(r, Send(reqs[r], 200, "docs", users))
  /\ UNCHANGED <<variant, now, users, foods, orders, nextId>>

(***************************************************************************)
(* Foods                                                                   *)
(***************************************************************************)
\* The query GET /foods builds: Undefined for {} (no filter).
FoodsQuery(category, v) ==
  IF category = Undefined \/ category = "" THEN Undefined
  ELSE IF v = "part_000" /\ category = "all" THEN Undefined
  ELSE ToLowerCase(category)

GetFoods(r, category) ==
  /\ IsNext(r)
  /\ Step(r, At(NewReq("GET /foods", NoHeader, InvalidId, category, Null),
                "getFoods.find"))
  /\ UNCHANGED <<variant, now, users, foods, orders, nextId>>

GetFoodsFind(r) ==
  /\ reqs[r].pc = "getFoods.find"
  /\ \/ Step(r, Caught(reqs[r], "MongoError", "Failed to fetch foods"))
     \/ LET query == FoodsQuery(reqs[r].query, variant)
        IN Step(r, Send(reqs[r], 200, "docs",
                        IF query = Undefined THEN foods
                        ELSE {d \in foods : Matches(d, "category", query)}))
  /\ UNCHANGED <<variant, now, users, foods, orders, nextId>>

GetFood(r, id) ==
  /\ IsNext(r)
  /\ LET q == NewReq("GET /foods/:id", NoHeader, id, Undefined, Null)
     IN Step(r, IF ~ValidObjectId(id)
                THEN Caught(q, "BSONError", "Failed to fetch food")
                ELSE At(q, "getFood.findOne"))
  /\ UNCHANGED <<variant, now, users, foods, orders, nextId>>

GetFoodFindOne(r) ==
  /\ reqs[r].pc = "getFood.findOne"
  /\ \/ Step(r, Caught(reqs[r], "MongoError", "Failed to fetch food"))
     \/ \E food \in FindOne(foods, "_id", reqs[r].id) :
          Step(r, IF ~Found(food)
                  THEN Send(reqs[r], 404, "message", "Food not found")
                  ELSE Send(reqs[r], 200, "doc", food))
  /\ UNCHANGED <<variant, now, users, foods, orders, nextId>>

PostFoods(r, header, body) ==
  /\ IsNext(r)
  /\ LET q == VerifyJWT(NewReq("POST /foods", header, InvalidId, Undefined, body), now)
     IN Step(r, IF q.pc = "next" THEN At(q, "verifyAdmin.findOne") ELSE q)
  /\ UNCHANGED <<variant, now, users, foods, orders, nextId>>

PostFoodsInsertOne(r) ==
  /\ reqs[r].pc = "postFoods.insertOne"
  /\ \/ /\ Step(r, Caught(reqs[r], "MongoError", "Failed to add food"))
        /\ UNCHANGED <<foods, nextId>>
     \/ /\ foods' = foods \cup {Doc(reqs[r].body, nextId)}
        /\ nextId' = nextId + 1
        /\ Step(r, Send(reqs[r], 200, "insert", nextId))
  /\ UNCHANGED <<variant, now, users, orders>>

DeleteFood(r, header, id) ==
  /\ IsNext(r)
  /\ LET q == VerifyJWT(NewReq("DELETE /foods/:id", header, id, Undefined, Null), now)
     IN Step(r, IF q.pc = "next" THEN At(q, "verifyAdmin.findOne") ELSE q)
  /\ UNCHANGED <<variant, now, users, foods, orders, nextId>>

DeleteFoodDeleteOne(r) ==
  /\ reqs[r].pc = "deleteFood.deleteOne"
  /\ \/ /\ Step(r, IF variant = "index.js"
                   THEN Caught(reqs[r], "MongoError", "Failed to delete food")
                   ELSE Escape(reqs[r], "MongoError"))
        /\ UNCHANGED foods
     \/ LET m == {d \in foods : Matches(d, "_id", reqs[r].id)}
        IN /\ foods' = foods \ m
           /\ Step(r, Send(reqs[r], 200, "delete", Cardinality(m)))
  /\ UNCHANGED <<variant, now, users, orders, nextId>>

(***************************************************************************)
(* Initial states and request inputs                                       *)
(***************************************************************************)
\* Collections as earlier runs of the server can have left them.
SeedUsers ==
  {[_id |-> 1, email |-> "a@x", role |-> "admin"],
   [_id |-> 2, email |-> "b@x", role |-> "user"]}

SeedSuperAdmin == {[_id |-> 1, email |-> "a@x", role |-> "super admin"]}

SeedOrders == {[_id |-> 3, buyerEmail |-> "b@x", items |-> "pizza"]}

SeedFoods ==
  {[_id |-> 4, name |-> "Pizza", price |-> 9, image |-> "url", category |-> "pizza"]}

ReqIds == 1 .. MaxReqs

InitWith(U, O, F) ==
  /\ variant \in Variants
  /\ now = 0
  /\ users \in U
  /\ orders \in O
  /\ foods \in F
  /\ nextId = 5
  /\ reqs = [r \in ReqIds |-> Idle]

UserBodies ==
  {[email |-> e] : e \in Emails}
    \cup {[email |-> e, role |-> ro] : e \in Emails, ro \in {"user", "admin", "super admin"}}

FoodBodies ==
  {[name |-> "Pizza", price |-> 9, image |-> "url"],
   [name |-> "Pizza", price |-> 9, image |-> "url", category |-> "Pizza"],
   [price |-> 9, image |-> "url", category |-> "pizza"],
   [name |-> "Pizza", image |-> "url", category |-> "pizza"],
   [name |-> "Pizza", price |-> 9, category |-> "Pizza"]}

OrderBodies == {[buyerEmail |-> e, items |-> "pizza"] : e \in Emails}

Categories == {Undefined, "all", "Pizza", "pizza"}

\* Tokens POST /jwt has issued by time t (it signs any body for anyone).
Issued(t) == {JwtSign([email |-> e], i) : e \in Emails, i \in 0 .. t}

Bearer(token) == Header(<<"Bearer", token>>)

\* Headers of callers holding an unexpired token.
GoodHeaders(t) == {Bearer(k) : k \in {k \in Issued(t) : ~JwtVerifyErr(k, t)}}

\* Every shape of header: absent, empty, no token part, issued and forged tokens.
AllHeaders(t) ==
  {NoHeader, Header(<<"">>), Header(<<"Bearer">>)}
    \cup {Bearer(k) : k \in Issued(t)}
    \cup {Bearer(Forge(k)) : k \in Issued(t)}

OrderIdParams == {InvalidId, 3, 5}
FoodIdParams == {InvalidId, 4, 5}

(***************************************************************************)
(* The whole server: every route and every shape of Authorization header,  *)
(* the clock running, MaxAuthReqs requests                                 *)
(***************************************************************************)
AuthReqIds == 1 .. MaxAuthReqs

Next ==
  \/ Tick
  \/ \E r \in AuthReqIds :
       \/ \E e \in Emails : PostJwt(r, [email |-> e])
       \/ GetRoot(r)
       \/ \E b \in {[email |-> "c@x", role |-> "admin"]} : PostUsers(r, b)
       \/ PostUsersFindOne(r)
       \/ PostUsersInsertOne(r)
       \/ \E e \in {"a@x"} : GetUser(r, e)
       \/ GetUserFindOne(r)
       \/ \E h \in AllHeaders(now) : GetUsers(r, h)
       \/ VerifyAdmin(r)
       \/ GetUsersFind(r)
       \/ \E c \in {Undefined, "Pizza"} : GetFoods(r, c)
       \/ GetFoodsFind(r)
       \/ \E i \in {InvalidId, 4} : GetFood(r, i)
       \/ GetFoodFindOne(r)
       \/ \E h \in AllHeaders(now) :
            PostFoods(r, h, [name |-> "Pizza", price |-> 9, image |-> "url", category |-> "Pizza"])
       \/ PostFoodsInsertOne(r)
       \/ \E h \in AllHeaders(now), i \in {InvalidId, 4} : DeleteFood(r, h, i)
       \/ DeleteFoodDeleteOne(r)
       \/ \E h \in AllHeaders(now) : PostOrders(r, h, [buyerEmail |-> "a@x", items |-> "pizza"])
       \/ PostOrdersInsertOne(r)
       \/ \E h \in AllHeaders(now), e \in {Undefined, "b@x"} : GetOrders(r, h, e)
       \/ GetOrdersFindOne(r)
       \/ GetOrdersFind(r)
       \/ \E h \in AllHeaders(now), i \in {InvalidId, 3} : DeleteOrder(r, h, i, Undefined)
       \/ DeleteOrderFindOne(r)
       \/ DeleteOrderFindUser(r)
       \/ DeleteOrderDeleteOne(r)

Init == InitWith({SeedUsers}, {SeedOrders}, {SeedFoods})

Spec == Init /\ [][Next]_vars

(***************************************************************************)
(* Scenario: registration (POST /users, GET /users/:email), concurrent     *)
(***************************************************************************)
InitUsers == InitWith({{}, SeedUsers}, {{}}, {{}})

NextUsers ==
  \E r \in ReqIds :
    \/ \E b \in UserBodies : PostUsers(r, b)
    \/ PostUsersFindOne(r)
    \/ PostUsersInsertOne(r)
    \/ \E e \in Emails : GetUser(r, e)
    \/ GetUserFindOne(r)

SpecUsers == InitUsers /\ [][NextUsers]_vars

(***************************************************************************)
(* Scenario: orders, concurrent, callers holding valid tokens              *)
(***************************************************************************)
InitOrders == InitWith({{}, SeedUsers, SeedSuperAdmin}, {SeedOrders}, {{}})

NextOrders ==
  \E r \in ReqIds :
    \/ \E h \in GoodHeaders(now), b \in OrderBodies : PostOrders(r, h, b)
    \/ PostOrdersInsertOne(r)
    \/ \E h \in GoodHeaders(now), e \in Emails : GetOrders(r, h, e)
    \/ GetOrdersFindOne(r)
    \/ GetOrdersFind(r)
    \/ \E h \in GoodHeaders(now), i \in OrderIdParams, e \in {Undefined, "b@x"} :
         DeleteOrder(r, h, i, e)
    \/ DeleteOrderFindOne(r)
    \/ DeleteOrderFindUser(r)
    \/ DeleteOrderDeleteOne(r)

SpecOrders == InitOrders /\ [][NextOrders]_vars

(***************************************************************************)
(* Scenario: registration by a client that awaits each response before     *)
(* its next request                                                        *)
(***************************************************************************)
Quiet == \A s \in ReqIds : reqs[s].pc \in {"idle", "done", "escaped"}

NextUsersSeq ==
  \E r \in ReqIds :
    \/ Quiet /\ \E b \in UserBodies : PostUsers(r, b)
    \/ PostUsersFindOne(r)
    \/ PostUsersInsertOne(r)
    \/ Quiet /\ \E e \in Emails : GetUser(r, e)
    \/ GetUserFindOne(r)

SpecUsersSeq == InitUsers /\ [][NextUsersSeq]_vars

(***************************************************************************)
(* Scenario: the admin-only routes and the foods collection, concurrent,   *)
(* callers holding valid tokens                                            *)
(***************************************************************************)
InitAdmin == InitWith({SeedUsers, SeedSuperAdmin}, {{}}, {SeedFoods})

NextAdmin ==
  \E r \in ReqIds :
    \/ \E h \in GoodHeaders(now) : GetUsers(r, h)
    \/ VerifyAdmin(r)
    \/ GetUsersFind(r)
    \/ \E i \in FoodIdParams : GetFood(r, i)
    \/ GetFoodFindOne(r)
    \/ \E h \in GoodHeaders(now), b \in FoodBodies : PostFoods(r, h, b)
    \/ PostFoodsInsertOne(r)
    \/ \E h \in GoodHeaders(now), i \in FoodIdParams : DeleteFood(r, h, i)
    \/ DeleteFoodDeleteOne(r)

SpecAdmin == InitAdmin /\ [][NextAdmin]_vars

(***************************************************************************)
(* Properties                                                              *)
(***************************************************************************)
AdminRoutes == {"GET /users", "POST /foods", "DELETE /foods/:id"}

ProtectedRoutes ==
  AdminRoutes \cup {"POST /orders", "GET /orders", "DELETE /orders/:id"}

Caller(q) == Field(q.decoded, "email")

HasAdminRole(user) == RoleOf(user) \in {"admin", "super admin"}

\* The request has been through verifyAdmin's lookup, which returned q.user.
GateAnswered(q) ==
  /\ q.pc # "idle"
  /\ q.route \in AdminRoutes
  /\ q.decoded # Null
  /\ q.pc # "verifyAdmin.findOne"
  /\ ~(q.pc = "escaped" /\ q.user = Null)

\* C1: on an admin-only route, a caller whose user lookup returned no record
\* or a record whose role is neither "admin" nor "super admin" is answered 403
\* and the route's collection operation is never issued for that request.
AdminGate_C1 ==
  \A r \in ReqIds :
    LET q == reqs[r]
    IN (GateAnswered(q) /\ ~HasAdminRole(q.user)) =>
         /\ q.pc = "done"
         /\ q.res.status = 403
         /\ q.res.kind = "message"

AdminGate_C1_Witness ==
  \E r \in ReqIds :
    LET q == reqs[r]
    IN /\ GateAnswered(q)
       /\ q.route = "POST /foods"
       /\ q.user # Null
       /\ RoleOf(q.user) = "user"
       /\ q.res # Null
       /\ q.res.status = 403

\* The token part of a header and whether jwt.verify rejects it at time t.
TokenFails(h, t) ==
  \/ Len(h.words) < 2
  \/ h.words[2].sig # "valid"
  \/ t >= h.words[2].payload.exp

\* A request that arrives in this step on a protected route.
Arrives(r) ==
  /\ reqs[r].pc = "idle"
  /\ reqs'[r].pc # "idle"
  /\ reqs'[r].route \in ProtectedRoutes

RejectedBy(q, status) ==
  /\ q.pc = "done"
  /\ q.res.status = status
  /\ q.decoded = Null
  /\ q.res.data \in {"Unauthorized", "Forbidden access"}

PassedOn(q) ==
  /\ q.decoded = q.header.words[2].payload
  /\ q.pc # "next"
  /\ q.pc = "done" => q.res.data \notin {"Unauthorized", "Forbidden access"}

\* C2 as stated: an absent header is answered 401, a present header whose
\* token fails verification (an empty header included) is answered 403, and
\* only a verified token has its claims attached and the next step run.
VerifyJWT_C2_AsStated ==
  [][\A r \in ReqIds :
       Arrives(r) =>
         LET q == reqs'[r]
         IN IF ~q.header.present THEN RejectedBy(q, 401)
            ELSE IF TokenFails(q.header, now) THEN RejectedBy(q, 403)
            ELSE PassedOn(q)]_vars

\* C2, amended: an absent or empty header is answered 401, a non-empty header
\* whose token fails verification (bad signature, expired, no token part) is
\* answered 403, in both cases nothing after verifyJWT runs, and only a
\* verified token has its claims attached and the next step run.
VerifyJWT_C2 ==
  [][\A r \in ReqIds :
       Arrives(r) =>
         LET q == reqs'[r]
         IN IF ~q.header.present \/ q.header.words = <<"">> THEN RejectedBy(q, 401)
            ELSE IF TokenFails(q.header, now) THEN RejectedBy(q, 403)
            ELSE PassedOn(q)]_vars

VerifyJWT_C2_Witness ==
  /\ now > 0
  /\ \E r \in ReqIds :
       LET q == reqs[r]
       IN /\ q.pc = "done"
          /\ q.route \in ProtectedRoutes
          /\ q.header.present
          /\ Len(q.header.words) >= 2
          /\ q.header.words[2].sig = "valid"
          /\ q.res.status = 403
          /\ q.res.data = "Forbidden access"

\* The caller's stored role is "admin" (the users collection is fixed in the
\* orders scenario).
StoredAdmin(email) == \E u \in users : Field(u, "email") = email /\ RoleOf(u) = "admin"

OrdersOf(docs, email) == \A d \in docs : Field(d, "buyerEmail") = email

\* C3: for GET /orders?email=X by an authenticated caller, a non-admin asking
\* for another's orders is answered 403, an admin is answered with the orders
\* of X, and a caller asking for their own is answered with their own orders.
GetOrdersOwnership_C3 ==
  \A r \in ReqIds :
    LET q == reqs[r]
    IN (q.pc = "done" /\ q.route = "GET /orders" /\ q.decoded # Null
          /\ q.query \in Emails) =>
         /\ (q.query # Caller(q) /\ ~StoredAdmin(Caller(q))) => q.res.status = 403
         /\ StoredAdmin(Caller(q)) =>
              (q.res.kind = "docs" /\ OrdersOf(q.res.data, q.query))
         /\ q.query = Caller(q) =>
              (q.res.kind = "docs" /\ OrdersOf(q.res.data, Caller(q)))

IsDeleteOrder(q) == q.pc # "idle" /\ q.route = "DELETE /orders/:id"

\* C4: an order leaves the collection only in the delete step of a
\* DELETE /orders/:id request whose caller is the stored order's buyerEmail or
\* whose looked-up role is "admin"; a caller who is neither, once the lookups
\* have answered, gets 403 in a step that leaves the collection unchanged. The
\* email in the request's query plays no part.
DeleteOrderAuthorized_C4 ==
  [][/\ \A d \in orders \ orders' :
          \E r \in ReqIds :
            /\ IsDeleteOrder(reqs[r])
            /\ reqs[r].pc = "deleteOrder.deleteOne"
            /\ reqs'[r].pc = "done"
            /\ reqs[r].id = d._id
            /\ reqs[r].order = d
            /\ \/ Field(d, "buyerEmail") = Caller(reqs[r])
               \/ RoleOf(reqs[r].user) = "admin"
     /\ \A r \in ReqIds :
          (/\ IsDeleteOrder(reqs[r])
           /\ reqs[r].pc \in {"deleteOrder.findOne", "deleteOrder.findUser"}
           /\ reqs'[r].pc \notin {reqs[r].pc, "escaped"}
           /\ reqs'[r].order # Null
           /\ Field(reqs'[r].order, "buyerEmail") # Caller(reqs[r])) =>
            \/ reqs'[r].pc = "deleteOrder.findUser"
            \/ /\ reqs[r].pc = "deleteOrder.findUser"
               /\ RoleOf(reqs'[r].user) = "admin"
               /\ reqs'[r].pc = "deleteOrder.deleteOne"
            \/ /\ reqs[r].pc = "deleteOrder.findUser"
               /\ RoleOf(reqs'[r].user) # "admin"
               /\ reqs'[r].pc = "done"
               /\ reqs'[r].res.status = 403
               /\ orders' = orders]_vars

DeleteOrderAuthorized_C4_Witness ==
  \E r1, r2 \in ReqIds :
    /\ IsDeleteOrder(reqs[r1])
    /\ IsDeleteOrder(reqs[r2])
    /\ reqs[r1].pc = "done"
    /\ reqs[r1].order # Null
    /\ reqs[r1].res.status = 403
    /\ reqs[r1].query = Field(reqs[r1].order, "buyerEmail")
    /\ reqs[r2].pc = "done"
    /\ reqs[r2].res.kind = "delete"
    /\ reqs[r2].res.data = 1

WithEmail(email) == {u \in users : Field(u, "email") = email}

IsPostUsers(q) == q.pc # "idle" /\ q.route = "POST /users"

\* C5: when a client registers the same email twice, one call after the
\* other, the second call is answered "User already exists" and exactly one
\* user record has that email.
RegisterTwice_C5 ==
  \A r1, r2 \in ReqIds :
    (/\ r1 < r2
     /\ IsPostUsers(reqs[r1])
     /\ IsPostUsers(reqs[r2])
     /\ reqs[r1].body.email = reqs[r2].body.email
     /\ reqs[r1].pc = "done"
     /\ reqs[r2].pc = "done") =>
       /\ reqs[r2].res.kind = "message"
       /\ reqs[r2].res.data = "User already exists"
       /\ Cardinality(WithEmail(reqs[r2].body.email)) = 1

RegisterTwice_C5_Witness ==
  \E r1, r2 \in ReqIds :
    /\ r1 < r2
    /\ IsPostUsers(reqs[r1])
    /\ IsPostUsers(reqs[r2])
    /\ reqs[r1].body.email = reqs[r2].body.email
    /\ reqs[r1].pc = "done"
    /\ reqs[r1].res.kind = "insert"
    /\ reqs[r2].pc = "done"
    /\ reqs[r2].res.kind = "message"
    /\ reqs[r2].res.data = "User already exists"

\* The body lacks one of the required fields.
LacksRequired(body) == ~({"name", "price", "image"} \subseteq DOMAIN body)

\* C6: a POST /foods that passed the admin gate with a body missing name,
\* price or image is answered 400 without reaching the insert, and no stored
\* food lacks one of the three fields.
FoodValidation_C6 ==
  /\ \A r \in ReqIds :
       LET q == reqs[r]
       IN (GateAnswered(q) /\ q.route = "POST /foods" /\ HasAdminRole(q.user)
             /\ LacksRequired(q.body)) =>
            /\ q.pc = "done"
            /\ q.res.status = 400
  /\ \A d \in foods : ~LacksRequired(d)

FoodValidation_C6_Witness ==
  \E r \in ReqIds :
    LET q == reqs[r]
    IN /\ GateAnswered(q)
       /\ q.route = "POST /foods"
       /\ HasAdminRole(q.user)
       /\ "price" \notin DOMAIN q.body
       /\ q.pc = "done"
       /\ q.res.status = 400

\* C7: every delete-result response of DELETE /orders/:id reports exactly one
\* deleted document (an id that matches no order is answered 404 instead).
DeleteOrderCount_C7 ==
  \A r \in ReqIds :
    LET q == reqs[r]
    IN (IsDeleteOrder(q) /\ q.pc = "done" /\ q.res.kind = "delete") =>
         q.res.data = 1

RoundTrips(body, doc) ==
  /\ Field(doc, "name") = body.name
  /\ Field(doc, "price") = body.price
  /\ Field(doc, "image") = body.image
  /\ "category" \in DOMAIN body =>
       Field(doc, "category") = ToLowerCase(body.category)

\* C8: an admin POST /foods whose body has name, price and image, with or
\* without a category, is answered with an insertedId (unless the store call
\* itself fails), the document stored under that id has the submitted name,
\* price and image and the lower-cased category, and so has the document a
\* GET /foods/:id with that id returns.
FoodRoundTrip_C8 ==
  \A r \in ReqIds :
    LET q == reqs[r]
    IN (GateAnswered(q) /\ q.route = "POST /foods" /\ HasAdminRole(q.user)
          /\ ~LacksRequired(q.body) /\ q.pc = "done") =>
         \/ q.err = "MongoError"
         \/ /\ q.res.kind = "insert"
            /\ \A d \in foods : d._id = q.res.data => RoundTrips(q.body, d)
            /\ \A g \in ReqIds :
                 (/\ reqs[g].pc = "done"
                  /\ reqs[g].route = "GET /foods/:id"
                  /\ reqs[g].id = q.res.data
                  /\ reqs[g].res.kind = "doc") =>
                   RoundTrips(q.body, reqs[g].res.data)

\* C9: no error leaves a handler or guard uncaught.
ErrorsCaught_C9 == \A r \in ReqIds : reqs[r].pc # "escaped"

\* C10: no two user records have the same email.
EmailUnique_C10 ==
  \A u1, u2 \in users : Field(u1, "email") = Field(u2, "email") => u1 = u2

====
